---- MODULE Spec2Model ----
(***************************************************************************)
(* ClaudeHydra v4 backend: the in-memory state store (state.rs) with its   *)
(* session / settings handlers and the SSE -> NDJSON streaming translator  *)
(* of claude_chat_stream (handlers.rs).                                    *)
(*                                                                         *)
(* Conventions.  Option<T> is a sequence: None == << >>, Some(x) == <<x>>. *)
(* A uuid::Uuid::new_v4() value is the ordinal of its generation (fresh    *)
(* values differ from every earlier one).  Every handler body that runs    *)
(* under state.lock() is one action: the mutex makes it atomic.            *)
(***************************************************************************)
EXTENDS Integers, Sequences, FiniteSets, TLC

\* ---------------------------------------------------------------- bounds
MaxUuid == 3
MaxTime == 1
MaxLines == 2
MaxPairLines == 1
MaxUsageLines == 3
MaxFrameLines == 2
MaxOwnLines == 1
MaxTailLines == 1

Tasks == {"t1", "t2"}
Titles == {"A", "B"}
Roles == {"user"}
Contents == {"hi"}

None == << >>
Some(x) == <<x>>

VARIABLES
    settings, api_keys, sessions, current_session_id,  \* AppState
    uuids,            \* number of uuids generated so far
    clock,            \* SystemTime::now(), seconds since the epoch
    pc,               \* where each request task is suspended
    session,          \* create_session: the Session built before the lock
    request,          \* the request most recently answered by a handler
    response,         \* ... and the response it was given
    lock,             \* the task holding the state mutex, if any
    chat_model,       \* claude_chat: the model name sent upstream
    path_id,          \* delete_session: the id of the request being served
    api_keys2,        \* AppState::api_keys of a second run of the service that
                      \* gets the same requests with other key strings
    response2,        \* ... and the response that run gave last
    body,             \* claude_chat_stream: bytes of the upstream response body
    pos,              \* ... how many of them byte_stream has yielded
    chunk_result,     \* ... what stream.next().await returned last
    sse_buffer, total_tokens, model_for_done,   \* ... the generator's locals
    out,              \* ... the NDJSON records yielded so far
    consumer,         \* ... whether the response Body is still held or dropped
    json_settings     \* update_settings: the AppSettings extracted from the body

storeVars == <<settings, api_keys, sessions, current_session_id>>
streamVars == <<body, pos, chunk_result, sse_buffer, total_tokens,
                model_for_done, out>>
auxVars == <<lock, path_id, api_keys2, chat_model, consumer, json_settings>>
vars == <<settings, api_keys, sessions, current_session_id,
          uuids, clock, pc, session, request, response,
          lock, path_id, api_keys2, response2, chat_model,
          body, pos, chunk_result, sse_buffer, total_tokens,
          model_for_done, out, consumer, json_settings>>

\* ------------------------------------------------------------ timestamps
\* days_to_ymd: civil date from days since the epoch (all values unsigned)
days_to_ymd(days) ==
    LET z   == days + 719468
        era == z \div 146097
        doe == z - era * 146097
        yoe == (doe - doe \div 1460 + doe \div 36524 - doe \div 146096) \div 365
        y   == yoe + era * 400
        doy == doe - (365 * yoe + yoe \div 4 - yoe \div 100)
        mp  == (5 * doy + 2) \div 153
        d   == doy - (153 * mp + 2) \div 5 + 1
        m   == IF mp < 10 THEN mp + 3 ELSE mp - 9
    IN  <<IF m <= 2 THEN y + 1 ELSE y, m, d>>

\* now_iso8601: "YYYY-MM-DDTHH:MM:SSZ" as its six zero-padded fields
now_iso8601(secs) ==
    LET days        == secs \div 86400
        time_of_day == secs % 86400
        ymd         == days_to_ymd(days)
    IN  <<ymd[1], ymd[2], ymd[3],
          time_of_day \div 3600, (time_of_day % 3600) \div 60, time_of_day % 60>>

\* ------------------------------------------------------------- the store
DefaultSettings ==
    [theme |-> "dark", language |-> "en",
     default_model |-> "claude-sonnet-4-5-20250929", auto_start |-> FALSE]

SettingsValues ==
    {DefaultSettings,
     [theme |-> "light", language |-> "pl",
      default_model |-> "claude-opus-4-6", auto_start |-> TRUE]}

Providers == {"ANTHROPIC_API_KEY", "GOOGLE_API_KEY", "OTHER"}
Keys == {"k1", "k2"}

\* AppState::new reads the two environment variables, each set or unset
EnvKeyMaps ==
    {[p \in D |-> "k1"] : D \in SUBSET {"ANTHROPIC_API_KEY", "GOOGLE_API_KEY"}}

NoRequest == [op |-> "none"]
NoResponse == [op |-> "none", status |-> 0, body |-> None]

\* LockFree for a store that is read and written without taking the mutex
LockIgnored == TRUE

\* state.lock() returns when no task holds the mutex
LockFree == lock = None

\* Unlock with the guard bound for the rest of the handler: it is not dropped
KeepLocked(t) == Some(t)

\* the MutexGuard goes out of scope: the mutex is free again
Unlock(t) == None

\* a handler returns: the status and the JSON body, or no body
Reply(req, status, json) ==
    /\ request' = req
    /\ response' = [op |-> req.op, status |-> status, body |-> json]
    /\ response2' = response'

\* the same, with the body that the second run returns
ReplyBoth(req, status, json, json2) ==
    /\ request' = req
    /\ response' = [op |-> req.op, status |-> status, body |-> json]
    /\ response2' = [op |-> req.op, status |-> status, body |-> json2]

\* Position with `.unwrap_or(0)` on the index: a miss becomes the first element
PositionOrFirst(ss, id) ==
    IF \E i \in 1..Len(ss) : ss[i].id = id
    THEN CHOOSE i \in 1..Len(ss) :
             /\ ss[i].id = id
             /\ \A j \in 1..(i - 1) : ss[j].id # id
    ELSE IF ss # << >> THEN 1 ELSE 0

\* sessions.iter().position(|s| s.id == id): first match, 0 for None
Position(ss, id) ==
    IF \E i \in 1..Len(ss) : ss[i].id = id
    THEN CHOOSE i \in 1..Len(ss) :
             /\ ss[i].id = id
             /\ \A j \in 1..(i - 1) : ss[j].id # id
    ELSE 0

\* RemoveAt as Vec::swap_remove(i): the last element takes the place of i
SwapRemove(ss, i) ==
    [j \in 1..(Len(ss) - 1) |-> IF j = i THEN ss[Len(ss)] ELSE ss[j]]

\* Vec::remove(i): drops element i, shifts the rest left
RemoveAt(ss, i) ==
    [j \in 1..(Len(ss) - 1) |-> IF j < i THEN ss[j] ELSE ss[j + 1]]

\* sessions.iter().find(|s| s.id == id).cloned()
Find(ss, id) ==
    IF Position(ss, id) = 0 THEN None ELSE Some(ss[Position(ss, id)])

\* ClearIfCurrent without the clearing
KeepCurrent(cur, id) == cur

\* if st.current_session_id.as_deref() == Some(&id) { ... = None }
ClearIfCurrent(cur, id) == IF cur = Some(id) THEN None ELSE cur

\* Insert in the manner of entry(k).or_insert(v): an existing entry is kept
InsertIfAbsent(map, k, v) ==
    [p \in DOMAIN map \cup {k} |-> IF p \in DOMAIN map THEN map[p] ELSE v]

\* HashMap::insert
Insert(map, k, v) ==
    [p \in DOMAIN map \cup {k} |-> IF p = k THEN v ELSE map[p]]

InitStore ==
    /\ settings = DefaultSettings
    /\ api_keys \in EnvKeyMaps
    /\ sessions = << >>
    /\ current_session_id = None
    /\ uuids = 0
    /\ clock = 0
    /\ pc = [t \in Tasks |-> "idle"]
    /\ session = [t \in Tasks |-> None]
    /\ request = NoRequest
    /\ response = NoResponse
    /\ lock = None
    /\ chat_model = [t \in Tasks |-> None]
    /\ consumer = [t \in Tasks |-> "held"]
    /\ json_settings = [t \in Tasks |-> None]
    /\ path_id = [t \in Tasks |-> None]
    /\ api_keys2 = [p \in DOMAIN api_keys |-> "k2"]
    /\ response2 = NoResponse
    /\ pos = [t \in Tasks |-> 0]
    /\ chunk_result = [t \in Tasks |-> "none"]
    /\ sse_buffer = [t \in Tasks |-> << >>]
    /\ total_tokens = [t \in Tasks |-> 0]
    /\ model_for_done = [t \in Tasks |-> None]
    /\ out = [t \in Tasks |-> << >>]

Init ==
    /\ InitStore
    /\ body = [t \in Tasks |-> << >>]

\* SystemTime::now() advances between any two steps
Tick ==
    /\ clock < MaxTime
    /\ clock' = clock + 1
    /\ UNCHANGED <<storeVars, uuids, pc, session, request, response, response2, streamVars, auxVars>>

\* create_session, before the lock: the Session value is built
create_session_build(t, title) ==
    /\ pc[t] = "idle"
    /\ uuids < MaxUuid
    /\ uuids' = uuids + 1
    /\ session' = [session EXCEPT ![t] =
           Some([id |-> uuids + 1, title |-> title,
                 created_at |-> now_iso8601(clock), messages |-> << >>])]
    /\ pc' = [pc EXCEPT ![t] = "create_lock"]
    /\ UNCHANGED <<storeVars, clock, request, response, response2, streamVars, auxVars>>

\* create_session that selects the new session only when none is selected
create_session_keep_selection(t) ==
    /\ pc[t] = "create_lock"
    /\ LockFree
    /\ current_session_id' =
           IF current_session_id = None
           THEN Some(session[t][1].id) ELSE current_session_id
    /\ sessions' = Append(sessions, session[t][1])
    /\ Reply([op |-> "create_session", title |-> session[t][1].title],
             201, session[t])
    /\ pc' = [pc EXCEPT ![t] = "idle"]
    /\ session' = [session EXCEPT ![t] = None]
    /\ UNCHANGED <<settings, api_keys, uuids, clock, streamVars, auxVars>>

\* create_session, under the lock: pointer assignment, push, response
create_session(t) ==
    /\ pc[t] = "create_lock"
    /\ LockFree
    /\ current_session_id' = Some(session[t][1].id)
    /\ sessions' = Append(sessions, session[t][1])
    /\ Reply([op |-> "create_session", title |-> session[t][1].title],
             201, session[t])
    /\ pc' = [pc EXCEPT ![t] = "idle"]
    /\ session' = [session EXCEPT ![t] = None]
    /\ UNCHANGED <<settings, api_keys, uuids, clock, streamVars, auxVars>>

\* Summaries with `.rev()` on the iterator: newest session first
SummariesNewestFirst(ss) ==
    [i \in 1..Len(ss) |->
        [id |-> ss[Len(ss) + 1 - i].id, title |-> ss[Len(ss) + 1 - i].title,
         created_at |-> ss[Len(ss) + 1 - i].created_at,
         message_count |-> Len(ss[Len(ss) + 1 - i].messages)]]

\* sessions.iter().map(|s| SessionSummary {..}).collect(): Vec order is kept
Summaries(ss) ==
    [i \in 1..Len(ss) |->
        [id |-> ss[i].id, title |-> ss[i].title,
         created_at |-> ss[i].created_at,
         message_count |-> Len(ss[i].messages)]]

list_sessions(t) ==
    /\ pc[t] = "idle"
    /\ LockFree
    /\ Reply([op |-> "list_sessions"], 200, Some(Summaries(sessions)))
    /\ UNCHANGED <<storeVars, uuids, clock, pc, session, streamVars, auxVars>>

get_session(t, id) ==
    /\ pc[t] = "idle"
    /\ LockFree
    /\ Reply([op |-> "get_session", id |-> id],
             IF Find(sessions, id) = None THEN 404 ELSE 200,
             Find(sessions, id))
    /\ UNCHANGED <<storeVars, uuids, clock, pc, session, streamVars, auxVars>>

delete_session(t, id) ==
    /\ pc[t] = "idle"
    /\ LockFree
    /\ LET idx == Position(sessions, id) IN
       IF idx # 0
       THEN /\ sessions' = RemoveAt(sessions, idx)
            /\ current_session_id' = ClearIfCurrent(current_session_id, id)
            /\ Reply([op |-> "delete_session", id |-> id],
                     200, Some([status |-> "deleted", id |-> id]))
       ELSE /\ Reply([op |-> "delete_session", id |-> id],
                     404, None)
            /\ UNCHANGED <<sessions, current_session_id>>
    /\ UNCHANGED <<settings, api_keys, uuids, clock, pc, session, streamVars, auxVars>>

\* PushMessage without the filter: the entry is pushed to every session
PushMessageAll(ss, i, entry) ==
    [j \in 1..Len(ss) |-> [ss[j] EXCEPT !.messages = Append(@, entry)]]

\* PushMessage as insert(0, entry): the newest entry comes first
PushMessageFront(ss, i, entry) ==
    [ss EXCEPT ![i].messages = <<entry>> \o @]

\* s.messages.push(entry) on the session found by iter_mut().find
PushMessage(ss, i, entry) ==
    [ss EXCEPT ![i].messages = Append(@, entry)]

add_session_message(t, id, req) ==
    /\ pc[t] = "idle"
    /\ LockFree
    /\ LET idx == Position(sessions, id) IN
       IF idx # 0
       THEN /\ uuids < MaxUuid
            /\ LET entry == [id |-> uuids + 1, role |-> req.role,
                             content |-> req.content, model |-> req.model,
                             agent |-> req.agent,
                             timestamp |-> now_iso8601(clock)]
               IN  /\ sessions' = PushMessage(sessions, idx, entry)
                   /\ Reply([op |-> "add_session_message", id |-> id,
                             entry |-> req],
                            201, Some(entry))
            /\ uuids' = uuids + 1
       ELSE /\ Reply([op |-> "add_session_message", id |-> id,
                      entry |-> req],
                     404, None)
            /\ UNCHANGED <<sessions, uuids>>
    /\ UNCHANGED <<settings, api_keys, current_session_id, clock, pc, session,
                   streamVars, auxVars>>

\* update_settings that keeps the stored auto_start flag
update_settings_keep_auto_start(t, new_settings) ==
    /\ pc[t] = "idle"
    /\ LockFree
    /\ settings' = [new_settings EXCEPT !.auto_start = settings.auto_start]
    /\ Reply([op |-> "update_settings", settings |-> new_settings],
             200, Some(settings'))
    /\ UNCHANGED <<api_keys, sessions, current_session_id,
                   uuids, clock, pc, session, streamVars, auxVars>>

update_settings(t, new_settings) ==
    /\ pc[t] = "idle"
    /\ LockFree
    /\ settings' = new_settings
    /\ Reply([op |-> "update_settings", settings |-> new_settings],
             200, Some(settings'))
    /\ UNCHANGED <<api_keys, sessions, current_session_id,
                   uuids, clock, pc, session, streamVars, auxVars>>

\* update_settings, statement by statement: state.lock()
update_settings_acquire(t, new_settings) ==
    /\ pc[t] = "idle"
    /\ LockFree
    /\ lock' = Some(t)
    /\ json_settings' = [json_settings EXCEPT ![t] = Some(new_settings)]
    /\ pc' = [pc EXCEPT ![t] = "settings_write"]
    /\ UNCHANGED <<storeVars, uuids, clock, session, request, response,
                   response2, streamVars, path_id, api_keys2, chat_model,
                   consumer>>

\* update_settings_write for a guard that is dropped after the assignment,
\* so that the response is made in a critical section of its own
update_settings_write_unlock(t) ==
    /\ pc[t] = "settings_write"
    /\ settings' = json_settings[t][1]
    /\ lock' = None
    /\ pc' = [pc EXCEPT ![t] = "settings_reply"]
    /\ UNCHANGED <<api_keys, sessions, current_session_id, uuids, clock,
                   session, request, response, response2, streamVars,
                   path_id, api_keys2, chat_model, consumer, json_settings>>

\* st.settings = new_settings
update_settings_write(t) ==
    /\ pc[t] = "settings_write"
    /\ settings' = json_settings[t][1]
    /\ pc' = [pc EXCEPT ![t] = "settings_reply"]
    /\ UNCHANGED <<api_keys, sessions, current_session_id, uuids, clock,
                   session, request, response, response2, streamVars, auxVars>>

\* Json(serde_json::to_value(&st.settings).unwrap()), and the guard is dropped
update_settings_reply(t) ==
    /\ pc[t] = "settings_reply"
    /\ Reply([op |-> "update_settings", settings |-> json_settings[t][1]],
             200, Some(settings))
    /\ lock' = Unlock(t)
    /\ json_settings' = [json_settings EXCEPT ![t] = None]
    /\ pc' = [pc EXCEPT ![t] = "idle"]
    /\ UNCHANGED <<storeVars, uuids, clock, session, streamVars, path_id,
                   api_keys2, chat_model, consumer>>

get_settings(t) ==
    /\ pc[t] = "idle"
    /\ LockFree
    /\ Reply([op |-> "get_settings"], 200, Some(settings))
    /\ UNCHANGED <<storeVars, uuids, clock, pc, session, streamVars, auxVars>>

\* SetKeyJson that echoes the stored key
SetKeyJsonEcho(provider, key) ==
    [status |-> "ok", provider |-> provider, key |-> key]

\* json!({ "status": "ok", "provider": req.provider })
SetKeyJson(provider, key) ==
    [status |-> "ok", provider |-> provider]

\* the second run is sent key2 where this run is sent key
set_api_key(t, provider, key, key2) ==
    /\ pc[t] = "idle"
    /\ LockFree
    /\ api_keys' = Insert(api_keys, provider, key)
    /\ api_keys2' = Insert(api_keys2, provider, key2)
    /\ ReplyBoth([op |-> "set_api_key", provider |-> provider, key |-> key],
                 200, Some(SetKeyJson(provider, key)),
                 Some(SetKeyJson(provider, key2)))
    /\ UNCHANGED <<settings, sessions, current_session_id, uuids, clock, pc,
                   session, streamVars, lock, path_id, chat_model, consumer, json_settings>>

\* Available for a provider whose stored key is the expected one
AvailableIfExpected(keys, provider) ==
    provider \in DOMAIN keys /\ keys[provider] = "k1"

\* st.api_keys.contains_key(provider)
Available(keys, provider) == provider \in DOMAIN keys

\* HealthResponse; start_time is the clock of Init
HealthJson(keys, uptime) ==
    [status |-> "ok", version |-> "4.0.0", app |-> "ClaudeHydra",
     uptime_seconds |-> uptime,
     providers |->
         <<[name |-> "anthropic",
            available |-> Available(keys, "ANTHROPIC_API_KEY")],
           [name |-> "google",
            available |-> Available(keys, "GOOGLE_API_KEY")]>>]

health_check(t) ==
    /\ pc[t] = "idle"
    /\ LockFree
    /\ ReplyBoth([op |-> "health_check"], 200,
                 Some(HealthJson(api_keys, clock)),
                 Some(HealthJson(api_keys2, clock)))
    /\ UNCHANGED <<storeVars, uuids, clock, pc, session, streamVars, auxVars>>

AddMessageRequests ==
    [role : Roles, content : Contents, model : {None, Some("m")},
     agent : {None}]

\* any string can be sent as a path id: generated uuids and one never generated
PathIds == 1..(MaxUuid + 1)

\* the session handlers, called concurrently by the request tasks
Next ==
    \/ \E t \in Tasks, title \in Titles : create_session_build(t, title)
    \/ \E t \in Tasks : create_session(t)
    \/ \E t \in Tasks : list_sessions(t)
    \/ \E t \in Tasks, id \in PathIds : get_session(t, id)
    \/ \E t \in Tasks, id \in PathIds : delete_session(t, id)
    \/ \E t \in Tasks, id \in PathIds, req \in AddMessageRequests :
           add_session_message(t, id, req)

\* the process was started with ANTHROPIC_API_KEY set
InitSessions ==
    /\ Init
    /\ DOMAIN api_keys = {"ANTHROPIC_API_KEY"}

Spec == InitSessions /\ [][Next]_vars

\* the same handlers while the clock advances
NextTimed == Next \/ Tick

SpecTimed == InitSessions /\ [][NextTimed]_vars

\* the settings and credential handlers
NextConfig ==
    \/ \E t \in Tasks, s \in SettingsValues : update_settings(t, s)
    \/ \E t \in Tasks, p \in Providers, k \in Keys, k2 \in Keys :
           set_api_key(t, p, k, k2)
    \/ \E t \in Tasks : get_settings(t)
    \/ \E t \in Tasks : health_check(t)
    \/ \E t \in Tasks : list_sessions(t)
    \/ \E t \in Tasks, id \in PathIds : get_session(t, id)

SpecConfig == Init /\ [][NextConfig]_vars

\* concurrent update_settings requests, their critical sections taken
\* statement by statement, while the settings are read
NextSettings ==
    \/ \E t \in Tasks, s \in SettingsValues : update_settings_acquire(t, s)
    \/ \E t \in Tasks : update_settings_write(t)
    \/ \E t \in Tasks : update_settings_reply(t)
    \/ \E t \in Tasks : get_settings(t)

SpecSettings == Init /\ [][NextSettings]_vars

\* credentials are set while sessions are created and settings replaced
NextCredentials ==
    \/ \E t \in Tasks, p \in Providers, k \in Keys : set_api_key(t, p, k, k)
    \/ \E t \in Tasks : create_session_build(t, "A")
    \/ \E t \in Tasks : create_session(t)
    \/ \E t \in Tasks, s \in SettingsValues : update_settings(t, s)

SpecCredentials == Init /\ [][NextCredentials]_vars

\* ----------------------------------- the critical sections, step by step
\* create_session: state.lock()
create_session_acquire(t) ==
    /\ pc[t] = "create_lock"
    /\ LockFree
    /\ lock' = Some(t)
    /\ pc' = [pc EXCEPT ![t] = "create_assign"]
    /\ UNCHANGED <<storeVars, uuids, clock, session, request, response,
                   response2, streamVars, path_id, api_keys2, chat_model, consumer,
                   json_settings>>

\* create_session: st.current_session_id = Some(session.id.clone())
create_session_assign(t) ==
    /\ pc[t] = "create_assign"
    /\ current_session_id' = Some(session[t][1].id)
    /\ pc' = [pc EXCEPT ![t] = "create_push"]
    /\ UNCHANGED <<settings, api_keys, sessions, uuids, clock, session,
                   request, response, response2, streamVars, auxVars>>

\* create_session: st.sessions.push(session.clone()), the response, and the
\* guard dropped at the end of the function
create_session_push(t) ==
    /\ pc[t] = "create_push"
    /\ sessions' = Append(sessions, session[t][1])
    /\ Reply([op |-> "create_session", title |-> session[t][1].title],
             201, session[t])
    /\ lock' = Unlock(t)
    /\ pc' = [pc EXCEPT ![t] = "idle"]
    /\ session' = [session EXCEPT ![t] = None]
    /\ UNCHANGED <<settings, api_keys, current_session_id, uuids, clock,
                   streamVars, path_id, api_keys2, chat_model, consumer, json_settings>>

\* delete_session: state.lock()
delete_session_acquire(t, id) ==
    /\ pc[t] = "idle"
    /\ LockFree
    /\ lock' = Some(t)
    /\ path_id' = [path_id EXCEPT ![t] = Some(id)]
    /\ pc' = [pc EXCEPT ![t] = "delete_find"]
    /\ UNCHANGED <<storeVars, uuids, clock, session, request, response,
                   response2, streamVars, api_keys2, chat_model, consumer, json_settings>>

\* delete_session: position, then remove(idx), or the 404 answer
delete_session_remove(t) ==
    /\ pc[t] = "delete_find"
    /\ LET id  == path_id[t][1]
           idx == Position(sessions, id)
       IN  IF idx # 0
           THEN /\ sessions' = RemoveAt(sessions, idx)
                /\ pc' = [pc EXCEPT ![t] = "delete_clear"]
                /\ UNCHANGED <<request, response, response2, lock, path_id>>
           ELSE /\ Reply([op |-> "delete_session", id |-> id], 404, None)
                /\ lock' = Unlock(t)
                /\ path_id' = [path_id EXCEPT ![t] = None]
                /\ pc' = [pc EXCEPT ![t] = "idle"]
                /\ UNCHANGED sessions
    /\ UNCHANGED <<settings, api_keys, current_session_id, uuids, clock,
                   session, streamVars, api_keys2, chat_model, consumer, json_settings>>

\* delete_session: the pointer cleared if it names the session, the response,
\* and the guard dropped at the end of the function
delete_session_clear(t) ==
    /\ pc[t] = "delete_clear"
    /\ current_session_id' = ClearIfCurrent(current_session_id, path_id[t][1])
    /\ Reply([op |-> "delete_session", id |-> path_id[t][1]],
             200, Some([status |-> "deleted", id |-> path_id[t][1]]))
    /\ lock' = Unlock(t)
    /\ path_id' = [path_id EXCEPT ![t] = None]
    /\ pc' = [pc EXCEPT ![t] = "idle"]
    /\ UNCHANGED <<settings, api_keys, sessions, uuids, clock, session,
                   streamVars, api_keys2, chat_model, consumer, json_settings>>

\* the session handlers with the writers' critical sections taken statement
\* by statement
NextLock ==
    \/ \E t \in Tasks, title \in Titles : create_session_build(t, title)
    \/ \E t \in Tasks : create_session_acquire(t)
    \/ \E t \in Tasks : create_session_assign(t)
    \/ \E t \in Tasks : create_session_push(t)
    \/ \E t \in Tasks, id \in PathIds : delete_session_acquire(t, id)
    \/ \E t \in Tasks : delete_session_remove(t)
    \/ \E t \in Tasks : delete_session_clear(t)
    \/ \E t \in Tasks : list_sessions(t)
    \/ \E t \in Tasks, id \in PathIds : get_session(t, id)

SpecLock == InitSessions /\ [][NextLock]_vars

\* ------------------------------------------- the SSE -> NDJSON translator
(***************************************************************************)
(* Bytes and characters are strings.  The two bytes "C3" "A9" are the      *)
(* UTF-8 encoding of the character "e_acute"; "FFFD" is U+FFFD.  A JSON    *)
(* event is written "{" kind fields "}" with one byte for the kind:        *)
(*   {c text}  {"type":"content_block_delta","delta":{"text":text}}        *)
(*   {m}       {"type":"message_delta"}                                    *)
(*   {m n}     {"type":"message_delta","usage":{"output_tokens":n}}        *)
(*   {s}       {"type":"message_stop"}                                     *)
(*   {p}       {"type":"ping"}                                             *)
(* and any other text is not JSON.                                         *)
(***************************************************************************)
LF == "LF"
DataPrefix == <<"d", "a", "t", "a", ":", " ">>
Sentinel == <<"[", "D", "O", "N", "E", "]">>
TextChars == {"x", "e_acute", "FFFD"}
\* a JSON u64 is the pair <<high 32-bit word, low 32-bit word>>:
\* "1" is 1, "2" is 2, "G" is 2^32 + 1
TokenCounts == [n \in {"1", "2", "G"} |->
                   IF n = "1" THEN <<0, 1>>
                   ELSE IF n = "2" THEN <<0, 2>> ELSE <<1, 1>>]
DefaultModel == "claude-sonnet-4-5-20250929"
StreamErrorToken == <<"LF", "[Stream error: e]">>

\* String::from_utf8_lossy(&chunk)
RECURSIVE from_utf8_lossy(_)
from_utf8_lossy(bytes) ==
    IF bytes = << >> THEN << >>
    ELSE IF bytes[1] = "C3"
         THEN IF Len(bytes) >= 2 /\ bytes[2] = "A9"
              THEN <<"e_acute">> \o from_utf8_lossy(SubSeq(bytes, 3, Len(bytes)))
              ELSE <<"FFFD">> \o from_utf8_lossy(Tail(bytes))
    ELSE IF bytes[1] = "A9"
         THEN <<"FFFD">> \o from_utf8_lossy(Tail(bytes))
    ELSE <<bytes[1]>> \o from_utf8_lossy(Tail(bytes))

\* sse_buffer.find('\n'): index of the first newline, 0 for None
FindNewline(buf) ==
    IF \E i \in 1..Len(buf) : buf[i] = LF
    THEN CHOOSE i \in 1..Len(buf) :
             buf[i] = LF /\ \A j \in 1..(i - 1) : buf[j] # LF
    ELSE 0

IsWhitespace(c) == c \in {" ", "CR", "LF", "TAB"}

\* str::trim
RECURSIVE TrimStart(_)
TrimStart(s) ==
    IF s # << >> /\ IsWhitespace(s[1]) THEN TrimStart(Tail(s)) ELSE s

RECURSIVE TrimEnd(_)
TrimEnd(s) ==
    IF s # << >> /\ IsWhitespace(s[Len(s)])
    THEN TrimEnd(SubSeq(s, 1, Len(s) - 1)) ELSE s

Trim(s) == TrimEnd(TrimStart(s))

\* line.strip_prefix("data: ")
StripPrefix(line) ==
    IF Len(line) >= Len(DataPrefix)
       /\ SubSeq(line, 1, Len(DataPrefix)) = DataPrefix
    THEN Some(SubSeq(line, Len(DataPrefix) + 1, Len(line)))
    ELSE None

\* ParseEvent for a parser that also accepts an object whose closing brace is
\* missing
ParseEventUnclosed(data) ==
    IF Len(data) < 2 \/ data[1] # "{" THEN None
    ELSE LET kind   == data[2]
             fields == IF data[Len(data)] = "}"
                       THEN SubSeq(data, 3, Len(data) - 1)
                       ELSE SubSeq(data, 3, Len(data))
         IN  IF kind = "c" /\ \A i \in 1..Len(fields) : fields[i] \in TextChars
             THEN Some([type |-> "content_block_delta", text |-> fields,
                        usage |-> None])
             ELSE IF kind = "m" /\ fields = << >>
             THEN Some([type |-> "message_delta", text |-> << >>,
                        usage |-> None])
             ELSE IF kind = "m" /\ Len(fields) = 1
                     /\ fields[1] \in DOMAIN TokenCounts
             THEN Some([type |-> "message_delta", text |-> << >>,
                        usage |-> Some(TokenCounts[fields[1]])])
             ELSE IF kind = "s" /\ fields = << >>
             THEN Some([type |-> "message_stop", text |-> << >>,
                        usage |-> None])
             ELSE IF kind = "p" /\ fields = << >>
             THEN Some([type |-> "ping", text |-> << >>, usage |-> None])
             ELSE None

\* serde_json::from_str::<Value>(data).ok(), with the fields the loop reads:
\* type, delta.text, usage and usage.output_tokens
ParseEvent(data) ==
    IF Len(data) < 3 \/ data[1] # "{" \/ data[Len(data)] # "}" THEN None
    ELSE LET kind   == data[2]
             fields == SubSeq(data, 3, Len(data) - 1)
         IN  IF kind = "c" /\ \A i \in 1..Len(fields) : fields[i] \in TextChars
             THEN Some([type |-> "content_block_delta", text |-> fields,
                        usage |-> None])
             ELSE IF kind = "m" /\ fields = << >>
             THEN Some([type |-> "message_delta", text |-> << >>,
                        usage |-> None])
             ELSE IF kind = "m" /\ Len(fields) = 1
                     /\ fields[1] \in DOMAIN TokenCounts
             THEN Some([type |-> "message_delta", text |-> << >>,
                        usage |-> Some(TokenCounts[fields[1]])])
             ELSE IF kind = "s" /\ fields = << >>
             THEN Some([type |-> "message_stop", text |-> << >>,
                        usage |-> None])
             ELSE IF kind = "p" /\ fields = << >>
             THEN Some([type |-> "ping", text |-> << >>, usage |-> None])
             ELSE None

\* `... .as_u64().unwrap_or(0) as u32`: the low word is kept
AsU32(n) == n[2]

TokenRecord(text) == [token |-> text, done |-> FALSE]

\* DoneRecord with the default model that the settings hold when it is built
DoneRecordCurrentDefault(model, total) ==
    [token |-> << >>, done |-> TRUE, model |-> settings.default_model,
     total_tokens |-> total]

DoneRecord(model, total) ==
    [token |-> << >>, done |-> TRUE, model |-> model, total_tokens |-> total]

\* ErrorRecord with a zero count instead of the running total
ErrorRecordZeroTotal(model, total) ==
    [token |-> StreamErrorToken, done |-> TRUE, model |-> model,
     total_tokens |-> 0]

ErrorRecord(model, total) ==
    [token |-> StreamErrorToken, done |-> TRUE, model |-> model,
     total_tokens |-> total]

\* RunLines without the `!text.is_empty()` test: every content event
\* yields a record
RECURSIVE RunLinesEmptyText(_, _, _)
RunLinesEmptyText(buf, total, model) ==
    LET newline_pos == FindNewline(buf) IN
    IF newline_pos = 0
    THEN [at |-> "await", yield |-> None, buf |-> buf, total |-> total]
    ELSE
      LET line == Trim(SubSeq(buf, 1, newline_pos - 1))
          rest == SubSeq(buf, newline_pos + 1, Len(buf))
          data == StripPrefix(line)
          event == IF data = None THEN None ELSE ParseEvent(data[1])
      IN  IF line = << >> \/ line[1] = ":" THEN RunLinesEmptyText(rest, total, model)
          ELSE IF data = None THEN RunLinesEmptyText(rest, total, model)
          ELSE IF data[1] = Sentinel THEN RunLinesEmptyText(rest, total, model)
          ELSE IF event = None THEN RunLinesEmptyText(rest, total, model)
          ELSE IF event[1].type = "content_block_delta"
          THEN IF TRUE
               THEN [at |-> "lines", yield |-> Some(TokenRecord(event[1].text)),
                     buf |-> rest, total |-> total]
               ELSE RunLinesEmptyText(rest, total, model)
          ELSE IF event[1].type = "message_delta"
          THEN RunLinesEmptyText(rest,
                        IF event[1].usage # None
                        THEN AsU32(event[1].usage[1]) ELSE total,
                        model)
          ELSE IF event[1].type = "message_stop"
          THEN [at |-> "lines", yield |-> Some(DoneRecord(model, total)),
                buf |-> rest, total |-> total]
          ELSE RunLinesEmptyText(rest, total, model)

\* the `while let Some(newline_pos) = sse_buffer.find('\n')` loop, run from
\* its head up to the next suspension: a yield (at = "lines") or the next
\* stream.next().await (at = "await")
RECURSIVE RunLines(_, _, _)
RunLines(buf, total, model) ==
    LET newline_pos == FindNewline(buf) IN
    IF newline_pos = 0
    THEN [at |-> "await", yield |-> None, buf |-> buf, total |-> total]
    ELSE
      LET line == Trim(SubSeq(buf, 1, newline_pos - 1))
          rest == SubSeq(buf, newline_pos + 1, Len(buf))
          data == StripPrefix(line)
          event == IF data = None THEN None ELSE ParseEvent(data[1])
      IN  IF line = << >> \/ line[1] = ":" THEN RunLines(rest, total, model)
          ELSE IF data = None THEN RunLines(rest, total, model)
          ELSE IF data[1] = Sentinel THEN RunLines(rest, total, model)
          ELSE IF event = None THEN RunLines(rest, total, model)
          ELSE IF event[1].type = "content_block_delta"
          THEN IF event[1].text # << >>
               THEN [at |-> "lines", yield |-> Some(TokenRecord(event[1].text)),
                     buf |-> rest, total |-> total]
               ELSE RunLines(rest, total, model)
          ELSE IF event[1].type = "message_delta"
          THEN RunLines(rest,
                        IF event[1].usage # None
                        THEN AsU32(event[1].usage[1]) ELSE total,
                        model)
          ELSE IF event[1].type = "message_stop"
          THEN [at |-> "lines", yield |-> Some(DoneRecord(model, total)),
                buf |-> rest, total |-> total]
          ELSE RunLines(rest, total, model)

\* GetKey for a lookup that takes the key of any configured provider
GetAnyKey(keys) ==
    IF DOMAIN keys = {} THEN None
    ELSE Some(keys[CHOOSE p \in DOMAIN keys : TRUE])

\* st.api_keys.get("ANTHROPIC_API_KEY").cloned()
GetKey(keys) ==
    IF "ANTHROPIC_API_KEY" \in DOMAIN keys
    THEN Some(keys["ANTHROPIC_API_KEY"]) ELSE None

\* StatusCode::is_success
IsSuccess(status) == status \in 200..299

\* StatusCode::from_u16(status).unwrap_or(StatusCode::BAD_GATEWAY)
FromU16(status) == IF status \in 100..999 THEN status ELSE 502

\* serde_json::Value::Null, the default Value
Null == [null |-> TRUE]

\* serde_json::Value::String
Str(s) == [str |-> s]

\* resp.json().await.unwrap_or_default() on a body whose decoding gave json
JsonOrDefault(json) == IF json = None THEN Null ELSE json[1]

\* under the lock, which the end of the block or the early return releases;
\* the model defaults to the literal
claude_chat_stream(t, req_model) ==
    /\ pc[t] = "idle"
    /\ LockFree
    /\ IF GetKey(api_keys) = None
       THEN /\ Reply([op |-> "claude_chat_stream"],
                     400, Some([error |-> Str("ANTHROPIC_API_KEY not configured")]))
            /\ UNCHANGED <<pc, model_for_done>>
       ELSE /\ model_for_done' = [model_for_done EXCEPT ![t] =
                   IF req_model = None THEN Some(DefaultModel) ELSE req_model]
            /\ pc' = [pc EXCEPT ![t] = "send"]
            /\ UNCHANGED <<request, response, response2>>
    /\ lock' = Unlock(t)
    /\ UNCHANGED <<storeVars, uuids, clock, session, body, pos, chunk_result,
                   sse_buffer, total_tokens, out, path_id, api_keys2,
                   chat_model, consumer, json_settings>>

\* the upstream answers: unreachable (0), a non-success status with a body
\* up, or success, after which the handler returns the streaming response
upstream_response(t, status, up) ==
    /\ pc[t] = "send"
    /\ IF status = 0
       THEN /\ Reply([op |-> "claude_chat_stream"],
                     502, Some([error |-> Str("Failed to reach Anthropic API")]))
            /\ pc' = [pc EXCEPT ![t] = "idle"]
            /\ model_for_done' = [model_for_done EXCEPT ![t] = None]
       ELSE IF ~IsSuccess(status)
       THEN /\ Reply([op |-> "claude_chat_stream",
                      upstream |-> [status |-> status, body |-> up]],
                     FromU16(status),
                     Some([error |-> JsonOrDefault(up.json)]))
            /\ pc' = [pc EXCEPT ![t] = "idle"]
            /\ model_for_done' = [model_for_done EXCEPT ![t] = None]
       ELSE /\ Reply([op |-> "claude_chat_stream"],
                     200, None)
            /\ pc' = [pc EXCEPT ![t] = "await"]
            /\ UNCHANGED model_for_done
    /\ UNCHANGED <<storeVars, uuids, clock, session, body, pos, chunk_result,
                   sse_buffer, total_tokens, out, auxVars>>

\* Suspend for a buffer that is one String shared by all requests
SuspendShared(t, r) ==
    /\ sse_buffer' = [u \in Tasks |-> r.buf]
    /\ total_tokens' = [total_tokens EXCEPT ![t] = r.total]
    /\ out' = [out EXCEPT ![t] =
                  IF r.yield = None THEN @ ELSE Append(@, r.yield[1])]
    /\ pc' = [pc EXCEPT ![t] = r.at]

\* the generator runs from the head of the line loop to its next suspension
Suspend(t, r) ==
    /\ sse_buffer' = [sse_buffer EXCEPT ![t] = r.buf]
    /\ total_tokens' = [total_tokens EXCEPT ![t] = r.total]
    /\ out' = [out EXCEPT ![t] =
                  IF r.yield = None THEN @ ELSE Append(@, r.yield[1])]
    /\ pc' = [pc EXCEPT ![t] = r.at]

\* stream.next().await returns Some(Ok(bytes)): the next n bytes of the body
stream_chunk(t, n) ==
    /\ pc[t] = "await"
    /\ n \in 1..(Len(body[t]) - pos[t])
    /\ LET chunk == SubSeq(body[t], pos[t] + 1, pos[t] + n)
       IN  Suspend(t, RunLines(sse_buffer[t] \o from_utf8_lossy(chunk),
                               total_tokens[t], model_for_done[t][1]))
    /\ pos' = [pos EXCEPT ![t] = @ + n]
    /\ chunk_result' = [chunk_result EXCEPT ![t] = "ok"]
    /\ UNCHANGED <<storeVars, uuids, clock, session, request, response, response2, body,
                   model_for_done, auxVars>>

\* the consumer polls again after a record was yielded inside the line loop
stream_resume(t) ==
    /\ pc[t] = "lines"
    /\ Suspend(t, RunLines(sse_buffer[t], total_tokens[t],
                           model_for_done[t][1]))
    /\ UNCHANGED <<storeVars, uuids, clock, session, request, response, response2, body, pos,
                   chunk_result, model_for_done, auxVars>>

\* stream.next().await returns Some(Err(e)): error record, then break
stream_error(t) ==
    /\ pc[t] = "await"
    /\ chunk_result' = [chunk_result EXCEPT ![t] = "err"]
    /\ out' = [out EXCEPT ![t] =
                  Append(@, ErrorRecord(model_for_done[t][1], total_tokens[t]))]
    /\ pc' = [pc EXCEPT ![t] = "ended"]
    /\ UNCHANGED <<storeVars, uuids, clock, session, request, response, response2, body, pos,
                   sse_buffer, total_tokens, model_for_done, auxVars>>

\* stream_end for a translator that, when the body closes, classifies what
\* is left in the buffer as one more line
stream_end_flush(t) ==
    /\ pc[t] = "await"
    /\ pos[t] = Len(body[t])
    /\ chunk_result' = [chunk_result EXCEPT ![t] = "eof"]
    /\ LET r == RunLines(sse_buffer[t] \o <<LF>>, total_tokens[t],
                         model_for_done[t][1])
       IN  /\ total_tokens' = [total_tokens EXCEPT ![t] = r.total]
           /\ out' = [out EXCEPT ![t] =
                         IF r.yield = None THEN @ ELSE Append(@, r.yield[1])]
    /\ pc' = [pc EXCEPT ![t] = "ended"]
    /\ UNCHANGED <<storeVars, uuids, clock, session, request, response,
                   response2, body, pos, sse_buffer, model_for_done, auxVars>>

\* stream.next().await returns None: the upstream closed the body
stream_end(t) ==
    /\ pc[t] = "await"
    /\ pos[t] = Len(body[t])
    /\ chunk_result' = [chunk_result EXCEPT ![t] = "eof"]
    /\ pc' = [pc EXCEPT ![t] = "ended"]
    /\ UNCHANGED <<storeVars, uuids, clock, session, request, response, response2, body, pos,
                   sse_buffer, total_tokens, model_for_done, out, auxVars>>

\* stream_abandon for a translator that runs as a task of its own, which
\* the drop of the Body does not stop
stream_abandon_detached(t) ==
    /\ pc[t] \in {"await", "lines"}
    /\ consumer[t] = "held"
    /\ consumer' = [consumer EXCEPT ![t] = "dropped"]
    /\ UNCHANGED <<storeVars, uuids, clock, pc, session, request, response,
                   response2, streamVars, lock, path_id, api_keys2,
                   chat_model, json_settings>>

\* the client goes away and the Body is dropped: the generator, suspended at
\* stream.next().await or at a yield, is dropped with it and so are its
\* locals, byte_stream among them; nothing polls it again
stream_abandon(t) ==
    /\ pc[t] \in {"await", "lines"}
    /\ consumer[t] = "held"
    /\ consumer' = [consumer EXCEPT ![t] = "dropped"]
    /\ pc' = [pc EXCEPT ![t] = "dropped"]
    /\ UNCHANGED <<storeVars, uuids, clock, session, request, response,
                   response2, streamVars, lock, path_id, api_keys2,
                   chat_model, json_settings>>

\* ------------------------------------------------- upstream response bodies
Data(payload) == DataPrefix \o payload

ContentX == Data(<<"{", "c", "x", "}">>)
ContentAcute == Data(<<"{", "c", "C3", "A9", "}">>)
Usage2 == Data(<<"{", "m", "2", "}">>)
Stop == Data(<<"{", "s", "}">>)

EventLines == {ContentX, ContentAcute, Usage2, Stop, << >>}
Tails == {<< >>, Stop}

\* up to n newline-terminated lines
RECURSIVE Terminated(_, _)
Terminated(lines, n) ==
    IF n = 0 THEN {<< >>}
    ELSE LET S == Terminated(lines, n - 1)
         IN  S \cup {s \o l \o <<LF>> : s \in S, l \in lines}

\* bodies: lines, then possibly a last line the upstream never terminated
Bodies == {s \o tail : s \in Terminated(EventLines, MaxLines), tail \in Tails}

ReqModels == {None, Some("claude-opus-4-6")}
Statuses == {0, 200, 429}

\* bodies of upstream error responses: the text, and its decoding as JSON,
\* an object being the record of the members that the handlers look up
ErrorBodies ==
    {[text |-> "{\"type\":\"error\"}",
      json |-> Some([type |-> Some("error"), id |-> None, content |-> None,
                     model |-> None, usage |-> None])],
     [text |-> "<html>Bad Gateway</html>", json |-> None]}

InitStream ==
    /\ InitStore
    /\ body \in {[t \in Tasks |-> IF t = "t1" THEN b ELSE << >>] : b \in Bodies}

NextStream ==
    \/ \E m \in ReqModels : claude_chat_stream("t1", m)
    \/ \E st \in Statuses, up \in ErrorBodies : upstream_response("t1", st, up)
    \/ \E n \in 1..Len(body["t1"]) : stream_chunk("t1", n)
    \/ stream_resume("t1")
    \/ stream_error("t1")
    \/ stream_end("t1")

SpecStream == InitStream /\ [][NextStream]_vars

\* two requests whose upstream sends the same well-formed body, each
\* receiving it in chunks of its own
ValidLines == {ContentX, ContentAcute, Usage2, Stop, << >>}

InitPair ==
    /\ InitStore
    /\ body \in {[t \in Tasks |-> b] : b \in Terminated(ValidLines, MaxPairLines)}

NextPair ==
    \E t \in Tasks :
        \/ \E m \in ReqModels : claude_chat_stream(t, m)
        \/ \E st \in Statuses, up \in ErrorBodies : upstream_response(t, st, up)
        \/ \E n \in 1..Len(body[t]) : stream_chunk(t, n)
        \/ stream_resume(t)
        \/ stream_error(t)
        \/ stream_end(t)

SpecPair == InitPair /\ [][NextPair]_vars

\* one request whose upstream sends usage updates and stops only
Usage1 == Data(<<"{", "m", "1", "}">>)
UsageG == Data(<<"{", "m", "G", "}">>)
UsageLines == {Usage1, Usage2, UsageG, Stop}

InitUsage ==
    /\ InitStore
    /\ body \in {[t \in Tasks |-> IF t = "t1" THEN b ELSE << >>] :
                    b \in Terminated(UsageLines, MaxUsageLines)}

SpecUsage == InitUsage /\ [][NextStream]_vars

\* one request whose upstream sends lines of every kind that the line loop
\* tells apart, all of one-byte characters
Blank == << >>
Comment == <<":", "k">>
SentinelLine == Data(Sentinel)
Ping == Data(<<"{", "p", "}">>)
EmptyContent == Data(<<"{", "c", "}">>)
Malformed == Data(<<"{", "c", "x">>)
FrameLines == {ContentX, Usage2, Stop, Blank, Comment, SentinelLine, Ping,
               EmptyContent, Malformed}

InitFrames ==
    /\ InitStore
    /\ body \in {[t \in Tasks |-> IF t = "t1" THEN b ELSE << >>] :
                    b \in Terminated(FrameLines, MaxFrameLines)}

SpecFrames == InitFrames /\ [][NextStream]_vars

\* bodies whose last line, an event of any kind, has no newline
TailLines == {ContentX, Usage2}
UnterminatedTails == {ContentX, Usage2, Stop}

InitTail ==
    /\ InitStore
    /\ body \in {[t \in Tasks |-> IF t = "t1" THEN s \o tail ELSE << >>] :
                    s \in Terminated(TailLines, MaxTailLines),
                    tail \in UnterminatedTails}

SpecTail == InitTail /\ [][NextStream]_vars

\* one streaming request on t1 while t2 calls the store handlers
IsolatedBody == ContentX \o <<LF>> \o Usage2 \o <<LF>> \o Stop \o <<LF>>

InitIsolated ==
    /\ InitStore
    /\ DOMAIN api_keys = {"ANTHROPIC_API_KEY"}
    /\ body = [t \in Tasks |-> IF t = "t1" THEN IsolatedBody ELSE << >>]

NextIsolated ==
    \/ \E m \in ReqModels : claude_chat_stream("t1", m)
    \/ \E up \in ErrorBodies : upstream_response("t1", 200, up)
    \/ \E n \in 1..Len(body["t1"]) : stream_chunk("t1", n)
    \/ stream_resume("t1")
    \/ stream_error("t1")
    \/ stream_end("t1")
    \/ \E s \in SettingsValues : update_settings("t2", s)
    \/ set_api_key("t2", "ANTHROPIC_API_KEY", "k2", "k2")
    \/ create_session_build("t2", "A")
    \/ create_session("t2")

SpecIsolated == InitIsolated /\ [][NextIsolated]_vars

\* one request over the fixed body, which its client may abandon
NextAbandon ==
    \/ \E m \in ReqModels : claude_chat_stream("t1", m)
    \/ \E st \in Statuses, up \in ErrorBodies : upstream_response("t1", st, up)
    \/ \E n \in 1..Len(body["t1"]) : stream_chunk("t1", n)
    \/ stream_resume("t1")
    \/ stream_error("t1")
    \/ stream_end("t1")
    \/ stream_abandon("t1")

SpecAbandon == InitIsolated /\ [][NextAbandon]_vars

\* two requests, each with a body and a model of its own
OwnLines == {Usage2, Stop}

InitOwn ==
    /\ InitStore
    /\ DOMAIN api_keys = {"ANTHROPIC_API_KEY"}
    /\ body \in [Tasks -> Terminated(OwnLines, MaxOwnLines)]

NextOwn ==
    \/ claude_chat_stream("t1", None)
    \/ claude_chat_stream("t2", Some("claude-opus-4-6"))
    \/ \E t \in Tasks :
           \/ \E up \in ErrorBodies : upstream_response(t, 200, up)
           \/ \E n \in 1..Len(body[t]) : stream_chunk(t, n)
           \/ stream_resume(t)
           \/ stream_error(t)
           \/ stream_end(t)

SpecOwn == InitOwn /\ [][NextOwn]_vars

\* ------------------------------------------------- the non-streaming chat
\* A u64 is its four 16-bit limbs, the most significant first; a u32 is two.
Limb == 65536
Zero64 == <<0, 0, 0, 0>>

\* u64 + u64, limb by limb with carry
Add64(x, y) ==
    LET s4 == x[4] + y[4]
        s3 == x[3] + y[3] + s4 \div Limb
        s2 == x[2] + y[2] + s3 \div Limb
        s1 == x[1] + y[1] + s2 \div Limb
    IN  <<s1 % Limb, s2 % Limb, s3 % Limb, s4 % Limb>>

\* `as u32` of a u64: the low two limbs
U32Of(x) == <<x[3], x[4]>>

\* u.get(field).and_then(|v| v.as_u64()).unwrap_or(0)
U64OrZero(field) == IF field = None THEN Zero64 ELSE field[1]

UsageInfo(u) ==
    [prompt_tokens |-> U32Of(U64OrZero(u.input_tokens)),
     completion_tokens |-> U32Of(U64OrZero(u.output_tokens)),
     total_tokens |-> U32Of(Add64(U64OrZero(u.input_tokens),
                                  U64OrZero(u.output_tokens)))]

\* blocks.iter().filter_map(|b| b.get("text")...).collect().join("")
RECURSIVE JoinTexts(_)
JoinTexts(blocks) ==
    IF blocks = << >> THEN << >>
    ELSE (IF blocks[1].text = None THEN << >> ELSE blocks[1].text[1])
         \o JoinTexts(Tail(blocks))

\* ChatResponse built from the decoded upstream body
ChatResponse(resp_body, req_model, now) ==
    LET content == IF resp_body.content = None THEN << >>
                   ELSE JoinTexts(resp_body.content[1])
        response_model == IF resp_body.model = None THEN req_model
                          ELSE resp_body.model[1]
    IN  [id |-> IF resp_body.id = None THEN "unknown" ELSE resp_body.id[1],
         message |-> [role |-> "assistant", content |-> content,
                      model |-> Some(response_model),
                      timestamp |-> Some(now_iso8601(now))],
         model |-> response_model,
         usage |-> IF resp_body.usage = None THEN None
                   ELSE Some(UsageInfo(resp_body.usage[1]))]

\* under the lock, which the end of the block or the early return releases;
\* the model defaults to the literal
claude_chat(t, req_model) ==
    /\ pc[t] = "idle"
    /\ LockFree
    /\ IF GetKey(api_keys) = None
       THEN /\ Reply([op |-> "claude_chat"],
                     400, Some([error |-> Str("ANTHROPIC_API_KEY not configured")]))
            /\ UNCHANGED <<pc, chat_model>>
       ELSE /\ chat_model' = [chat_model EXCEPT ![t] =
                   IF req_model = None THEN Some(DefaultModel) ELSE req_model]
            /\ pc' = [pc EXCEPT ![t] = "chat_send"]
            /\ UNCHANGED <<request, response, response2>>
    /\ lock' = Unlock(t)
    /\ UNCHANGED <<storeVars, uuids, clock, session, streamVars, path_id,
                   api_keys2, consumer, json_settings>>

\* the upstream answers: unreachable (0), or a status with a body up
claude_chat_response(t, status, up) ==
    /\ pc[t] = "chat_send"
    /\ IF status = 0
       THEN Reply([op |-> "claude_chat"],
                  502, Some([error |-> Str("Failed to reach Anthropic API")]))
       ELSE IF ~IsSuccess(status)
       THEN Reply([op |-> "claude_chat",
                   upstream |-> [status |-> status, body |-> up]],
                  FromU16(status), Some([error |-> JsonOrDefault(up.json)]))
       ELSE IF up.json = None
       THEN Reply([op |-> "claude_chat"],
                  502, Some([error |-> Str("Invalid JSON from Anthropic")]))
       ELSE Reply([op |-> "claude_chat"], 200,
                  Some(ChatResponse(up.json[1], chat_model[t][1], clock)))
    /\ pc' = [pc EXCEPT ![t] = "idle"]
    /\ chat_model' = [chat_model EXCEPT ![t] = None]
    /\ UNCHANGED <<storeVars, uuids, clock, session, streamVars, lock,
                   path_id, api_keys2, consumer, json_settings>>

\* a decoded message body, and the same without model, id and usage
ChatBodies ==
    {[text |-> "{\"id\":\"msg_1\"}",
      json |-> Some([type |-> Some("message"), id |-> Some("msg_1"),
                     content |-> Some(<<[text |-> Some(<<"h", "i">>)],
                                        [text |-> None],
                                        [text |-> Some(<<"!">>)]>>),
                     model |-> Some("claude-opus-4-6-v1"),
                     usage |-> Some([input_tokens |-> Some(<<0, 0, 65535, 65535>>),
                                     output_tokens |-> Some(<<0, 0, 0, 1>>)])])],
     [text |-> "{}",
      json |-> Some([type |-> None, id |-> None, content |-> None,
                     model |-> None, usage |-> None])]}

\* both chat handlers, while the other store handlers are served
NextChat ==
    \/ \E t \in Tasks, m \in ReqModels : claude_chat(t, m)
    \/ \E t \in Tasks, st \in Statuses, up \in ErrorBodies \cup ChatBodies :
           claude_chat_response(t, st, up)
    \/ \E t \in Tasks, m \in ReqModels : claude_chat_stream(t, m)
    \/ \E t \in Tasks, st \in Statuses, up \in ErrorBodies :
           upstream_response(t, st, up)
    \/ \E t \in Tasks : stream_end(t)
    \/ \E t \in Tasks, p \in {"ANTHROPIC_API_KEY", "GOOGLE_API_KEY"} :
           set_api_key(t, p, "k1", "k2")
    \/ \E t \in Tasks : get_settings(t)

SpecChat == Init /\ [][NextChat]_vars

\* ================================================================ claims
Terminals(rs) == {i \in 1..Len(rs) : rs[i].done}
Finished(t) == chunk_result[t] \in {"eof", "err"}

\* C1: when the upstream has completed or failed, the emitted records hold
\* exactly one record with done = true, and at no time is a record emitted
\* after a done = true record.
C1_ExactlyOneTerminalLast ==
    \A t \in Tasks :
        /\ Finished(t) => Cardinality(Terminals(out[t])) = 1
        /\ \A i \in Terminals(out[t]) : i = Len(out[t])

\* C2: when the upstream body has ended (stream.next() returned None) the
\* translator has emitted a terminal record.
C2_TerminalBeforeEnd ==
    \A t \in Tasks : chunk_result[t] = "eof" => Terminals(out[t]) # {}

\* C3: two translators fed the same well-formed body in different chunkings
\* have emitted the same records once both bodies have ended.
C3_ChunkBoundaryIndependence ==
    (/\ chunk_result["t1"] = "eof"
     /\ chunk_result["t2"] = "eof"
     /\ model_for_done["t1"] = model_for_done["t2"])
        => out["t1"] = out["t2"]

\* the text fragments of the content_block_delta events with non-empty text
\* among the newline-terminated lines of a text, in order
RECURSIVE DeltaTexts(_)
DeltaTexts(text) ==
    LET nl == FindNewline(text) IN
    IF nl = 0 THEN << >>
    ELSE LET data  == StripPrefix(Trim(SubSeq(text, 1, nl - 1)))
             event == IF data = None THEN None ELSE ParseEvent(data[1])
             rest  == DeltaTexts(SubSeq(text, nl + 1, Len(text)))
         IN  IF event # None /\ event[1].type = "content_block_delta"
                /\ event[1].text # << >>
             THEN <<event[1].text>> \o rest
             ELSE rest

RECURSIVE NonTerminalTokens(_)
NonTerminalTokens(rs) ==
    IF rs = << >> THEN << >>
    ELSE IF rs[1].done THEN NonTerminalTokens(Tail(rs))
    ELSE <<rs[1].token>> \o NonTerminalTokens(Tail(rs))

\* C4: whenever the translator waits for a chunk or has ended, its done = false
\* records are, one for one and in order, the non-empty text fragments of the
\* content_block_delta events in the bytes received so far.
C4_TokensFollowEvents ==
    \A t \in Tasks :
        pc[t] \in {"await", "ended"} =>
            NonTerminalTokens(out[t])
                = DeltaTexts(from_utf8_lossy(SubSeq(body[t], 1, pos[t])))

\* C5: a transport error before any message_stop appends exactly one record
\* (done, the error annotation, the request's model, the running total) and
\* ends the generator; afterwards no chunk is read and no record is emitted.
C5_ErrorTerminal ==
    [][\A t \in Tasks :
         /\ (chunk_result[t] = "err") =>
                /\ out'[t] = out[t]
                /\ pos'[t] = pos[t]
                /\ pc'[t] = "ended"
         /\ (/\ chunk_result[t] # "err"
             /\ chunk_result'[t] = "err"
             /\ Terminals(out[t]) = {}) =>
                /\ out'[t] = Append(out[t],
                       [token |-> StreamErrorToken, done |-> TRUE,
                        model |-> model_for_done[t][1],
                        total_tokens |-> total_tokens[t]])
                /\ Terminals(out'[t]) = {Len(out'[t])}
                /\ pos'[t] = pos[t]
                /\ pc'[t] = "ended"]_vars

\* a stream that failed after a token and a usage update of 2
C5_Witness ==
    /\ chunk_result["t1"] = "err"
    /\ Len(out["t1"]) = 2
    /\ ~out["t1"][1].done
    /\ out["t1"][2].done
    /\ out["t1"][2].total_tokens = 2
    /\ out["t1"][2].token = StreamErrorToken
    /\ pos["t1"] < Len(body["t1"])

Live(id) == \E i \in 1..Len(sessions) : sessions[i].id = id
LiveAfter(id) == \E i \in 1..Len(sessions') : sessions'[i].id = id
Pending(id) == \E t \in Tasks : session[t] # None /\ session[t][1].id = id

\* C6: the current-session pointer is cleared or is the id of a session in
\* the collection.
C6_PointerLive ==
    current_session_id = None \/ Live(current_session_id[1])

\* the current session was deleted while another session stays
C6_Witness ==
    /\ response.op = "delete_session"
    /\ response.status = 200
    /\ current_session_id = None
    /\ sessions # << >>
    /\ response.body[1].id > sessions[1].id

\* a handler of this kind returned in the step
Answered(op) ==
    /\ request'.op = op
    /\ request' # request \/ response' # response

\* C7: a delete_session whose id matches no live session answers 404 and
\* leaves settings, credentials, sessions and the pointer as they were.
C7_DeleteUnknown ==
    [][(Answered("delete_session") /\ ~Live(request'.id)) =>
           /\ response'.status = 404
           /\ sessions' = sessions
           /\ current_session_id' = current_session_id
           /\ settings' = settings
           /\ api_keys' = api_keys]_vars

\* a 404 from delete_session with two sessions, one with history, and a
\* current session in the store
C7_Witness ==
    /\ response.op = "delete_session"
    /\ response.status = 404
    /\ Len(sessions) = 2
    /\ sessions[1].messages # << >>
    /\ current_session_id # None

\* the sessions other than id, in their order
RECURSIVE Without(_, _)
Without(ss, id) ==
    IF ss = << >> THEN << >>
    ELSE IF ss[1].id = id THEN Without(Tail(ss), id)
    ELSE <<ss[1]>> \o Without(Tail(ss), id)

\* C8: delete_session(id) of a live session answers 200, removes that session
\* and no other, keeps the order of the rest, clears the pointer exactly when
\* it was id; an id that was generated and is not (or no longer) a session
\* never becomes one, and get_session on an id that is not live answers 404.
C8_DeleteLive ==
    [][/\ (Answered("delete_session") /\ Live(request'.id)) =>
              /\ response'.status = 200
              /\ sessions' = Without(sessions, request'.id)
              /\ Len(sessions') = Len(sessions) - 1
              /\ current_session_id' =
                     IF current_session_id = Some(request'.id)
                     THEN None ELSE current_session_id
       /\ \A id \in 1..uuids : (~Live(id) /\ ~Pending(id)) => ~LiveAfter(id)
       /\ (Answered("get_session") /\ ~Live(request'.id)) =>
              response'.status = 404
      ]_vars

\* the middle one of three sessions was deleted; the pointer stays on the
\* third
C8_Witness ==
    /\ response.op = "delete_session"
    /\ response.status = 200
    /\ response.body[1].id = 2
    /\ Len(sessions) = 2
    /\ sessions[1].id = 1
    /\ sessions[2].id = 3
    /\ current_session_id = Some(3)

SessionOf(id) == sessions[CHOOSE i \in 1..Len(sessions) : sessions[i].id = id]
SessionAfter(id) ==
    sessions'[CHOOSE i \in 1..Len(sessions') : sessions'[i].id = id]

\* C9: create_session(title) answers 201 with a session of a fresh id, that
\* title and no history, and stores it; while that id is live, only a delete
\* of it or an append to it changes its stored record; get_session on a live
\* id answers 200 with the stored record.
C9_CreateThenGet ==
    [][/\ \A t \in Tasks, title \in Titles :
            create_session_build(t, title) =>
                /\ session'[t] # None
                /\ session'[t][1].title = title
                /\ session'[t][1].messages = << >>
                /\ ~Live(session'[t][1].id)
                /\ ~Pending(session'[t][1].id)
                /\ session'[t][1].id \notin 1..uuids
       /\ Answered("create_session") =>
              /\ response'.status = 201
              /\ \E t \in Tasks : session[t] = response'.body
              /\ response'.body[1].title = request'.title
              /\ LiveAfter(response'.body[1].id)
              /\ SessionAfter(response'.body[1].id) = response'.body[1]
       /\ \A id \in 1..uuids :
            (/\ Live(id)
             /\ ~(/\ request'.op \in {"delete_session", "add_session_message"}
                  /\ request'.id = id
                  /\ request' # request \/ response' # response)) =>
                LiveAfter(id) /\ SessionAfter(id) = SessionOf(id)
       /\ (Answered("get_session") /\ Live(request'.id)) =>
              /\ response'.status = 200
              /\ response'.body = Some(SessionOf(request'.id))
              /\ response'.body[1].id = request'.id
      ]_vars

\* get_session returned the second of two sessions, titled B, with no history,
\* while the first session has history
C9_Witness ==
    /\ response.op = "get_session"
    /\ response.status = 200
    /\ Len(sessions) = 2
    /\ response.body[1] = sessions[2]
    /\ response.body[1].title = "B"
    /\ response.body[1].messages = << >>
    /\ sessions[1].messages # << >>

\* C10: while the latest response is that of a create_session, the pointer is
\* the id of the session it returned and that session is the last of the
\* collection.
C10_CreateSetsCurrent ==
    response.op = "create_session" =>
        /\ current_session_id = Some(response.body[1].id)
        /\ sessions # << >>
        /\ sessions[Len(sessions)] = response.body[1]

\* two concurrent creates took effect in the reverse of the order in which
\* their ids were generated: the pointer moved from session 2 to session 1
C10_Witness ==
    /\ response.op = "create_session"
    /\ Len(sessions) = 2
    /\ sessions[1].id = 2
    /\ sessions[2].id = 1
    /\ current_session_id = Some(1)

Ids(ss) == [i \in 1..Len(ss) |-> ss[i].id]

\* C11: a listing has one summary per live session, in the order of the
\* collection, each with the id, title, creation time and history length of
\* its session (an empty list for an empty collection), and changes nothing;
\* the order of the collection is the order in which the creates took
\* effect: a create puts its session last, a delete takes one session out
\* and keeps the order of the others, and nothing else changes the order.
C11_ListInCreationOrder ==
    [][/\ Answered("list_sessions") =>
              /\ response'.status = 200
              /\ Len(response'.body[1]) = Len(sessions)
              /\ \A i \in 1..Len(sessions) :
                     /\ response'.body[1][i].id = sessions[i].id
                     /\ response'.body[1][i].title = sessions[i].title
                     /\ response'.body[1][i].created_at = sessions[i].created_at
                     /\ response'.body[1][i].message_count =
                            Len(sessions[i].messages)
              /\ sessions' = sessions
       /\ \/ Ids(sessions') = Ids(sessions)
          \/ /\ Answered("create_session")
             /\ Ids(sessions') = Append(Ids(sessions), response'.body[1].id)
          \/ /\ Answered("delete_session")
             /\ Ids(sessions') = Ids(Without(sessions, request'.id))
      ]_vars

\* a listing of two sessions that took effect in the reverse of the order of
\* their ids, the first of them with one message
C11_Witness ==
    /\ response.op = "list_sessions"
    /\ Len(response.body[1]) = 2
    /\ response.body[1][1].id = 2
    /\ response.body[1][1].message_count = 1
    /\ response.body[1][2].id = 1
    /\ response.body[1][2].message_count = 0

\* C12: add_session_message on an id that matches no live session (never
\* generated, generated and not yet stored, or deleted before this request
\* took the lock) answers 404 with no body and changes no history and
\* nothing else of the store.
C12_AppendUnknown ==
    [][(Answered("add_session_message") /\ ~Live(request'.id)) =>
           /\ response'.status = 404
           /\ response'.body = None
           /\ sessions' = sessions
           /\ current_session_id' = current_session_id
           /\ settings' = settings
           /\ api_keys' = api_keys
      ]_vars

\* an append to session 1 was refused after session 1 had been created and
\* deleted, while the remaining session has a history
C12_Witness ==
    /\ request.op = "add_session_message"
    /\ request.id = 1
    /\ response.op = "add_session_message"
    /\ response.status = 404
    /\ ~Pending(1)
    /\ Len(sessions) = 1
    /\ sessions[1].messages # << >>

History(ss, id) == ss[Position(ss, id)].messages

\* C13: in every step the history of a session that stays live is unchanged,
\* or is its old value with one entry added at the end, and then the step is
\* an add_session_message naming that session, answered 201 with that entry,
\* which carries the role, content, model and agent of the request.
C13_HistoryAppendOnly ==
    [][\A id \in 1..uuids :
           (Live(id) /\ LiveAfter(id)) =>
               \/ History(sessions', id) = History(sessions, id)
               \/ /\ Answered("add_session_message")
                  /\ request'.id = id
                  /\ response'.status = 201
                  /\ History(sessions', id) =
                         Append(History(sessions, id), response'.body[1])
                  /\ response'.body[1].role = request'.entry.role
                  /\ response'.body[1].content = request'.entry.content
                  /\ response'.body[1].model = request'.entry.model
                  /\ response'.body[1].agent = request'.entry.agent
      ]_vars

\* a session has two entries, the second one just appended with a model set
\* and the first one without
C13_Witness ==
    /\ response.op = "add_session_message"
    /\ response.status = 201
    /\ Len(sessions) = 1
    /\ Len(sessions[1].messages) = 2
    /\ sessions[1].messages[2] = response.body[1]
    /\ sessions[1].messages[2].model = Some("m")
    /\ sessions[1].messages[1].model = None

\* C14: the stored settings change only in an update_settings step, which
\* makes them the value of its request, whole; a get_settings returns 200
\* with the stored settings in all four fields and changes nothing.  So a
\* get_settings after a replacement, and before the next one, returns the
\* replaced value.
C14_GetAfterReplace ==
    [][/\ Answered("update_settings") => settings' = request'.settings
       /\ settings' # settings => Answered("update_settings")
       /\ Answered("get_settings") =>
              /\ response'.status = 200
              /\ response'.body # None
              /\ response'.body[1].theme = settings.theme
              /\ response'.body[1].language = settings.language
              /\ response'.body[1].default_model = settings.default_model
              /\ response'.body[1].auto_start = settings.auto_start
              /\ settings' = settings
      ]_vars

\* a get_settings returned settings other than those of the start, which
\* only a replacement can have stored
C14_Witness ==
    /\ response.op = "get_settings"
    /\ response.body[1].theme = "light"
    /\ response.body[1].language = "pl"
    /\ response.body[1].default_model = "claude-opus-4-6"
    /\ response.body[1].auto_start = TRUE

\* C18: two runs of the service that start with the same providers
\* configured and get the same requests, and differ in nothing but the key
\* strings loaded at startup and sent to set_api_key, give the same
\* response to every request of the settings, credential, health and
\* session handlers.
C18_KeysNotObservable ==
    response.op \in {"update_settings", "get_settings", "set_api_key",
                     "health_check", "list_sessions", "get_session"} =>
        response2 = response

\* a health_check answered that anthropic is available while the two runs
\* hold different keys for it, one of them received by set_api_key
C18_Witness ==
    /\ response.op = "health_check"
    /\ response.body[1].providers[1].available
    /\ ~response.body[1].providers[2].available
    /\ api_keys["ANTHROPIC_API_KEY"] = "k2"
    /\ api_keys2["ANTHROPIC_API_KEY"] = "k1"
    /\ "OTHER" \in DOMAIN api_keys

Critical == {"create_assign", "create_push", "delete_find", "delete_clear"}

ChatOps == {"claude_chat", "claude_chat_stream"}
Waiting == {"chat_send", "send", "await", "lines"}

\* C16: a task that waits for the upstream response or for a stream chunk
\* does not hold the state lock.
C16_NoLockWhileWaiting ==
    \A t \in Tasks : pc[t] \in Waiting => lock # Some(t)

\* the last answer is that of a get_settings, given while t1 waits for a
\* chunk of its stream; t2 has since sent a chat request upstream
C16_Witness ==
    /\ pc["t1"] = "await"
    /\ pc["t2"] = "chat_send"
    /\ response.op = "get_settings"
    /\ lock = None

\* C17: a chat handler sends its request upstream only when the credential
\* map holds ANTHROPIC_API_KEY; the step in which a chat handler reads the
\* store without that entry answers 400, starts no upstream request and no
\* stream, emits no record and leaves the store as it was.
C17_NoKeyNoRequest ==
    [][/\ \A t \in Tasks :
            (pc[t] = "idle" /\ pc'[t] \in Waiting) =>
                "ANTHROPIC_API_KEY" \in DOMAIN api_keys
       /\ \A op \in ChatOps :
            (Answered(op) /\ pc' = pc) =>
                /\ "ANTHROPIC_API_KEY" \notin DOMAIN api_keys
                /\ response'.status = 400
                /\ storeVars' = storeVars
                /\ out' = out
                /\ lock' = None
      ]_vars

\* a chat request was refused while only the Google key is configured and
\* no task has a request in flight
C17_Witness ==
    /\ response.op = "claude_chat"
    /\ response.status = 400
    /\ DOMAIN api_keys = {"GOOGLE_API_KEY"}
    /\ \A t \in Tasks : pc[t] = "idle"

\* C19: when the upstream answers a chat handler with a non-success status,
\* the handler answers with that status and an error member that is the
\* decoded upstream body, or, for a body that is not JSON, is not null; the
\* task is idle again and has emitted no record.
C19_UpstreamErrorSurfaced ==
    [][\A op \in ChatOps :
           (Answered(op) /\ "upstream" \in DOMAIN request') =>
               /\ response'.status = request'.upstream.status
               /\ request'.upstream.body.json # None =>
                      response'.body[1].error = request'.upstream.body.json[1]
               /\ request'.upstream.body.json = None =>
                      response'.body[1].error # Null
               /\ \A t \in Tasks : pc'[t] # pc[t] => pc'[t] = "idle"
               /\ out' = out
      ]_vars

\* the parts of C19 that do not depend on the decoding of the body
C19_StatusAndNoStream ==
    [][\A op \in ChatOps :
           (Answered(op) /\ "upstream" \in DOMAIN request') =>
               /\ response'.status = request'.upstream.status
               /\ request'.upstream.body.json # None =>
                      response'.body[1].error = request'.upstream.body.json[1]
               /\ \A t \in Tasks : pc'[t] # pc[t] => pc'[t] = "idle"
               /\ out' = out
      ]_vars

\* C20: once a terminal record made from a message_stop (its token is empty)
\* is in the output of a request, no step reads another chunk, takes another
\* line from the buffer or emits another record for that request.
C20_StopIsFinal ==
    [][\A t \in Tasks :
           (\E i \in 1..Len(out[t]) :
                out[t][i].done /\ out[t][i].token = << >>) =>
               /\ pos'[t] = pos[t]
               /\ sse_buffer'[t] = sse_buffer[t]
               /\ out'[t] = out[t]
      ]_vars

\* the output-token count, a u64, of the last message_delta event with a
\* usage member among the newline-terminated lines of a text; 0 if none
RECURSIVE LastUsage(_, _)
LastUsage(text, last) ==
    LET nl == FindNewline(text) IN
    IF nl = 0 THEN last
    ELSE LET data  == StripPrefix(Trim(SubSeq(text, 1, nl - 1)))
             event == IF data = None THEN None ELSE ParseEvent(data[1])
         IN  LastUsage(SubSeq(text, nl + 1, Len(text)),
                       IF event # None /\ event[1].type = "message_delta"
                          /\ event[1].usage # None
                       THEN event[1].usage[1] ELSE last)

\* the text that the line loop of t has taken from the buffer after the step
ClassifiedAfter(t) == SubSeq(body[t], 1, pos'[t] - Len(sse_buffer'[t]))

StopRecordAdded(t) ==
    /\ Len(out'[t]) = Len(out[t]) + 1
    /\ out'[t][Len(out'[t])].done
    /\ out'[t][Len(out'[t])].token = << >>

\* C21: a record emitted for a message_stop is {token: "", done: true, the
\* model fixed by the request, total_tokens}, where total_tokens is the
\* output-token count of the last usage update in the lines classified so
\* far (not a sum of the updates), or 0 if there was none.
C21_StopRecordTotal ==
    [][\A t \in Tasks :
           StopRecordAdded(t) =>
               /\ out'[t][Len(out'[t])].model = model_for_done[t][1]
               /\ <<0, out'[t][Len(out'[t])].total_tokens>> =
                      LastUsage(ClassifiedAfter(t), <<0, 0>>)
      ]_vars

\* the same with the count taken modulo 2^32
C21_StopRecordLowWord ==
    [][\A t \in Tasks :
           StopRecordAdded(t) =>
               /\ out'[t][Len(out'[t])].model = model_for_done[t][1]
               /\ out'[t][Len(out'[t])].total_tokens =
                      LastUsage(ClassifiedAfter(t), <<0, 0>>)[2]
      ]_vars

\* the characters of the bytes that t has received
Received(t) == from_utf8_lossy(SubSeq(body[t], 1, pos[t]))

\* the text after the last newline of a text
RECURSIVE AfterLastNewline(_)
AfterLastNewline(text) ==
    IF FindNewline(text) = 0 THEN text
    ELSE AfterLastNewline(SubSeq(text, FindNewline(text) + 1, Len(text)))

\* the records and the running total of a translator that gets a text at once
RECURSIVE AtOnce(_, _, _, _)
AtOnce(text, total, model, records) ==
    LET r == RunLines(text, total, model) IN
    IF r.yield = None THEN [out |-> records, total |-> r.total]
    ELSE AtOnce(r.buf, r.total, model, Append(records, r.yield[1]))

\* C22: whenever the translator waits for a chunk or the body has ended,
\* its buffer is the text received after the last newline, and its records
\* and running total are those of the lines received whole, each classified
\* once, however their bytes were split over chunks; no step of the stream
\* changes the model name.
C22_WholeLinesOnly ==
    [][\A t \in Tasks :
           /\ (pc[t] \in {"await", "ended"} /\ chunk_result[t] # "err") =>
                  /\ sse_buffer[t] = AfterLastNewline(Received(t))
                  /\ out[t] = AtOnce(Received(t), 0,
                                     model_for_done[t][1], << >>).out
                  /\ total_tokens[t] = AtOnce(Received(t), 0,
                                              model_for_done[t][1], << >>).total
           /\ pc[t] \in {"await", "lines"} =>
                  model_for_done'[t] = model_for_done[t]
      ]_vars

\* a line that carries a payload, not the sentinel, that is not a JSON text
\* (a JSON text here is an object: it opens and closes with a brace)
IsMalformedLine(line) ==
    LET data == StripPrefix(Trim(line)) IN
    /\ data # None
    /\ data[1] # Sentinel
    /\ \/ Len(data[1]) < 2
       \/ data[1][1] # "{"
       \/ data[1][Len(data[1])] # "}"

\* a text without its malformed newline-terminated lines
RECURSIVE WithoutMalformed(_)
WithoutMalformed(text) ==
    LET nl == FindNewline(text) IN
    IF nl = 0 THEN text
    ELSE (IF IsMalformedLine(SubSeq(text, 1, nl - 1)) THEN << >>
          ELSE SubSeq(text, 1, nl))
         \o WithoutMalformed(SubSeq(text, nl + 1, Len(text)))

\* C23: whenever the translator waits for a chunk or the body has ended,
\* its records and its running total are those of the received text with
\* the malformed data lines taken out: such a line emits nothing, changes
\* no total, ends nothing, and the lines after it are processed as without
\* it.
C23_MalformedDiscarded ==
    \A t \in Tasks :
        (pc[t] \in {"await", "ended"} /\ chunk_result[t] # "err") =>
            /\ out[t] = AtOnce(WithoutMalformed(Received(t)), 0,
                               model_for_done[t][1], << >>).out
            /\ total_tokens[t] = AtOnce(WithoutMalformed(Received(t)), 0,
                                        model_for_done[t][1], << >>).total

\* the body was a malformed data line, then a content event; it has ended
\* with the one token record of the content event
C23_Witness ==
    /\ body["t1"] = Malformed \o <<LF>> \o ContentX \o <<LF>>
    /\ chunk_result["t1"] = "eof"
    /\ out["t1"] = <<[token |-> <<"x">>, done |-> FALSE]>>
    /\ total_tokens["t1"] = 0

\* a blank line, a comment line, the sentinel, an event of another kind, or
\* a content event with empty text
IsIgnoredLine(line) ==
    \/ Trim(line) = << >>
    \/ Trim(line)[1] = ":"
    \/ Trim(line) \in {SentinelLine, Ping, EmptyContent}

\* a text without its ignored newline-terminated lines
RECURSIVE WithoutIgnored(_)
WithoutIgnored(text) ==
    LET nl == FindNewline(text) IN
    IF nl = 0 THEN text
    ELSE (IF IsIgnoredLine(SubSeq(text, 1, nl - 1)) THEN << >>
          ELSE SubSeq(text, 1, nl))
         \o WithoutIgnored(SubSeq(text, nl + 1, Len(text)))

\* C24: whenever the translator waits for a chunk or the body has ended,
\* its records and its running total are those of the received text with
\* the blank lines, comment lines, sentinel lines, events of other kinds and
\* content events with empty text taken out: none of them emits a record
\* (the sentinel no terminal record) or changes the total.
C24_IgnoredLines ==
    \A t \in Tasks :
        (pc[t] \in {"await", "ended"} /\ chunk_result[t] # "err") =>
            /\ out[t] = AtOnce(WithoutIgnored(Received(t)), 0,
                               model_for_done[t][1], << >>).out
            /\ total_tokens[t] = AtOnce(WithoutIgnored(Received(t)), 0,
                                        model_for_done[t][1], << >>).total

\* the body was a usage update of 2, then the sentinel; it has ended with
\* no record at all and the total of the update
C24_Witness ==
    /\ body["t1"] = Usage2 \o <<LF>> \o SentinelLine \o <<LF>>
    /\ chunk_result["t1"] = "eof"
    /\ out["t1"] = << >>
    /\ total_tokens["t1"] = 2

Translating(t) == pc[t] \in {"await", "lines"}
TranslatorState(t) ==
    <<pos[t], chunk_result[t], sse_buffer[t], total_tokens[t], out[t]>>

\* C25: a step that changes the state of a translator changes nothing of the
\* store; a step that changes the store, or answers a store request, changes
\* no translator state, model name or emitted record; and whatever the
\* store handlers did meanwhile, every terminal record carries the model name
\* fixed at the start of the request and the records are those of the
\* received text alone.
C25_TranslatorApartFromStore ==
    [][\A t \in Tasks :
           /\ (Translating(t) /\ TranslatorState(t)' # TranslatorState(t)) =>
                  storeVars' = storeVars
           /\ (Translating(t) /\ (storeVars' # storeVars
                                   \/ request' # request)) =>
                  /\ TranslatorState(t)' = TranslatorState(t)
                  /\ model_for_done'[t] = model_for_done[t]
                  /\ pc'[t] = pc[t]
           /\ Translating(t) =>
                  /\ model_for_done'[t] = model_for_done[t]
                  /\ \A i \in Terminals(out'[t]) :
                         out'[t][i].model = model_for_done[t][1]
           /\ (pc[t] = "await" /\ chunk_result[t] # "err") =>
                  out[t] = AtOnce(Received(t), 0,
                                  model_for_done[t][1], << >>).out
      ]_vars

\* the stream of t1, started without a model, has emitted its terminal
\* record with the literal default; a create_session was answered after the
\* stream began, the settings hold another default model and the key was
\* replaced
C25_Witness ==
    /\ Len(out["t1"]) = 2
    /\ out["t1"][2].done
    /\ out["t1"][2].model = DefaultModel
    /\ settings.default_model = "claude-opus-4-6"
    /\ api_keys["ANTHROPIC_API_KEY"] = "k2"
    /\ Len(sessions) = 1
    /\ response.op = "create_session"

\* C26: the model that a streaming request fixes when it starts is the one
\* named by the request or, for a request without one, the default model
\* that the settings hold at that moment.
C26_DefaultFromSettings ==
    [][\A t \in Tasks :
           (pc[t] = "idle" /\ pc'[t] = "send") =>
               \/ model_for_done'[t] \in ReqModels \ {None}
               \/ model_for_done'[t] = Some(settings.default_model)
      ]_vars

\* C27: a step that changes the translator state of one request leaves the
\* translator state and the model name of every other request as they were;
\* and whenever a request waits for a chunk or its body has ended, its
\* buffer, records and running total are those of its own received text
\* and its own model name, however the chunks of the requests interleave.
C27_OwnTranslatorState ==
    [][\A t \in Tasks :
           /\ TranslatorState(t)' # TranslatorState(t) =>
                  \A u \in Tasks \ {t} :
                      /\ TranslatorState(u)' = TranslatorState(u)
                      /\ model_for_done'[u] = model_for_done[u]
                      /\ pc'[u] = pc[u]
           /\ (pc[t] \in {"await", "ended"} /\ chunk_result[t] # "err") =>
                  /\ sse_buffer[t] = AfterLastNewline(Received(t))
                  /\ out[t] = AtOnce(Received(t), 0,
                                     model_for_done[t][1], << >>).out
                  /\ total_tokens[t] = AtOnce(Received(t), 0,
                                              model_for_done[t][1], << >>).total
      ]_vars

\* t1 holds part of a usage line in its buffer while t2, whose body is a
\* stop line, has emitted its terminal record with its own model and still
\* runs
C27_Witness ==
    /\ body["t1"] = Usage2 \o <<LF>>
    /\ pc["t1"] = "await"
    /\ sse_buffer["t1"] = <<"d", "a", "t">>
    /\ body["t2"] = Stop \o <<LF>>
    /\ pc["t2"] = "lines"
    /\ sse_buffer["t2"] = << >>
    /\ out["t2"] = <<[token |-> << >>, done |-> TRUE,
                      model |-> "claude-opus-4-6", total_tokens |-> 0]>>


\* C28: once the consumer of a request has dropped the record sequence, the
\* translator of that request is torn down: the step that drops it and every
\* later step leave the number of upstream bytes read, the result of the last
\* read, the buffer, the running total and the records delivered as they
\* were, and the request is never sent again
C28_AbandonTearsDown ==
    [][\A t \in Tasks :
          consumer'[t] = "dropped" =>
              /\ pos'[t] = pos[t]
              /\ chunk_result'[t] = chunk_result[t]
              /\ sse_buffer'[t] = sse_buffer[t]
              /\ total_tokens'[t] = total_tokens[t]
              /\ out'[t] = out[t]
              /\ pc'[t] = "dropped"
              /\ consumer[t] = "dropped" => request' = request]_vars

\* the client has gone after the first record was delivered, with part of
\* the body unread
C28_Witness ==
    /\ consumer["t1"] = "dropped"
    /\ Len(out["t1"]) = 1
    /\ pos["t1"] < Len(body["t1"])


\* C29: set_api_key answers 200 for every provider name, known to the
\* service or not; after it the map holds the given key for that provider
\* and, for every other provider, the entry it held before and no new one;
\* the settings, the sessions and the selection are as they were
C29_SetKeyFrame ==
    [][Answered("set_api_key") =>
          /\ response'.status = 200
          /\ request'.provider \in DOMAIN api_keys'
          /\ api_keys'[request'.provider] = request'.key
          /\ DOMAIN api_keys' = DOMAIN api_keys \cup {request'.provider}
          /\ \A p \in DOMAIN api_keys \ {request'.provider} :
                 api_keys'[p] = api_keys[p]
          /\ settings' = settings
          /\ sessions' = sessions
          /\ current_session_id' = current_session_id]_vars

\* the last request answered set the key of a provider that the service
\* does not know, and that key is held next to the key of a known provider,
\* with a session stored and the settings replaced
C29_Witness ==
    /\ request = [op |-> "set_api_key", provider |-> "OTHER", key |-> "k2"]
    /\ response.status = 200
    /\ "OTHER" \in DOMAIN api_keys
    /\ api_keys["OTHER"] = "k2"
    /\ "ANTHROPIC_API_KEY" \in DOMAIN api_keys
    /\ api_keys["ANTHROPIC_API_KEY"] = "k1"
    /\ sessions # << >>
    /\ settings # DefaultSettings

\* a 32-bit field as a 64-bit number
Widen(x) == <<0, 0, x[1], x[2]>>

\* the response of claude_chat carries a usage summary
HasUsage ==
    /\ response.op = "claude_chat"
    /\ response.status = 200
    /\ response.body[1].usage # None

\* C30: in every claude_chat response with a usage summary, total_tokens is
\* the sum of prompt_tokens and completion_tokens as numbers, with no
\* reduction to 32 bits.
C30_TotalIsSum ==
    HasUsage =>
        LET u == response.body[1].usage[1]
        IN  Widen(u.total_tokens) =
                Add64(Widen(u.prompt_tokens), Widen(u.completion_tokens))

\* what holds of the summary: total_tokens is the low 32 bits of that sum
C30_TotalLowWord ==
    HasUsage =>
        LET u == response.body[1].usage[1]
        IN  u.total_tokens =
                U32Of(Add64(Widen(u.prompt_tokens), Widen(u.completion_tokens)))

\* timestamps compared as their ISO-8601 strings are: field by field
RECURSIVE StampLeq(_, _)
StampLeq(a, b) ==
    IF a = << >> THEN TRUE
    ELSE IF Head(a) # Head(b) THEN Head(a) < Head(b)
    ELSE StampLeq(Tail(a), Tail(b))

\* C31: in every state the sessions, in the order in which list_sessions
\* returns them, have created_at timestamps that never decrease.
C31_StampsNonDecreasing ==
    \A i \in 1..Len(sessions), j \in 1..Len(sessions) :
        i < j => StampLeq(sessions[i].created_at, sessions[j].created_at)

\* what holds of the timestamps: none is later than the clock, and a Session
\* built and not yet pushed carries a timestamp no later than the clock
C31_StampsNotAfterClock ==
    /\ \A i \in 1..Len(sessions) :
           StampLeq(sessions[i].created_at, now_iso8601(clock))
    /\ \A t \in Tasks :
           session[t] # None =>
               StampLeq(session[t][1].created_at, now_iso8601(clock))

\* C32: when update_settings answers, with other update_settings requests
\* under way, its status is 200 and its body is the settings value that the
\* same request submitted.
C32_ResponseIsSubmitted ==
    [][Answered("update_settings") =>
          /\ response'.status = 200
          /\ response'.body = Some(request'.settings)]_vars

\* t1 was answered with the value it submitted, which is not the default,
\* and t2 has since taken the lock with the default value, not yet written
C32_Witness ==
    /\ response.op = "update_settings"
    /\ request.settings # DefaultSettings
    /\ response.body = Some(request.settings)
    /\ pc["t1"] = "idle"
    /\ pc["t2"] = "settings_write"
    /\ json_settings["t2"] = Some(DefaultSettings)

\* a text up to and including its last newline
UpToLastNewline(text) ==
    SubSeq(text, 1, Len(text) - Len(AfterLastNewline(text)))

\* C33: the step in which the body ends emits no record and leaves the
\* running total as it was, whatever is left in the buffer; and once the
\* body has ended, the records and the running total are those of the body
\* cut after its last newline: a last line without a newline, be it a
\* content, usage or stop event, has added nothing.
C33_TailDropped ==
    [][\A t \in Tasks :
           chunk_result'[t] = "eof" =>
               /\ pc'[t] = "ended"
               /\ chunk_result[t] # "eof" =>
                      /\ out'[t] = out[t]
                      /\ total_tokens'[t] = total_tokens[t]
               /\ out'[t] =
                      AtOnce(UpToLastNewline(from_utf8_lossy(body[t])), 0,
                             model_for_done[t][1], << >>).out
               /\ total_tokens'[t] =
                      AtOnce(UpToLastNewline(from_utf8_lossy(body[t])), 0,
                             model_for_done[t][1], << >>).total
      ]_vars

\* the body has ended with a stop event left in the buffer, after a content
\* line that gave the only record
C33_Witness ==
    /\ chunk_result["t1"] = "eof"
    /\ pc["t1"] = "ended"
    /\ sse_buffer["t1"] = Stop
    /\ Len(out["t1"]) = 1
    /\ ~out["t1"][1].done


====
